---- MODULE Spec2Model ----
(***************************************************************************)
(* Model of migrate/versioning/genmodel.py: ModelGenerator.applyModel      *)
(* (the live applier, with its direct path and its sqlite rebuild path)    *)
(* and ModelGenerator.toUpgradeDowngradePython (the migration script       *)
(* generator).  The SchemaDiff object the generator consumes is built by   *)
(* migrate/versioning/schemadiff.py, which is not part of the sources at   *)
(* hand; computeDiff below follows its description in the specification.   *)
(***************************************************************************)
EXTENDS Integers, Sequences, FiniteSets, TLC

(***************************************************************************)
(* Bounds and the universe of inputs.                                      *)
(***************************************************************************)
\* every table of the database holds no row or MaxRows rows when applyModel starts
MaxRows == 1
\* the model may declare the first NumAlterable column names otherwise than
\* the database reports them
NumAlterable == 1
\* a column handed to column_repr carries 0..MaxConstraints constraints
MaxConstraints == 1

TableNames == <<"accounts", "orders">>
ColNames == <<"id", "login", "passwd">>
TableSet == {TableNames[k] : k \in 1..Len(TableNames)}
ColSet == {ColNames[k] : k \in 1..Len(ColNames)}

ReflectedDecl == "String"
DeclsOf(k, na) == IF k <= na THEN {"Integer", ReflectedDecl} ELSE {ReflectedDecl}

\* the value a freshly added column holds in the rows that already exist
NULL == <<"NULL">>

(***************************************************************************)
(* State.                                                                  *)
(***************************************************************************)
VARIABLES
    diff,         \* self.diff: the diff report applyModel and the generator consume
    declarative,  \* self.declarative
    pre,          \* the database when applyModel is called
    db,           \* the live tables, as the applier's connection sees them
    temp,         \* the temporary tables '_temp_<t>'
    pc,           \* the position of applyModel
    i,            \* index of the current table in the current table loop
    j,            \* index of the current column in the current column loop
    trans,        \* the transaction of the rebuild: none, open, committed, rolledback
    saved,        \* the database and temporary tables when the transaction began
    log,          \* the statements issued so far, with their outcome
    path,         \* per table-with-diff, the path applyModel took for it
    exc,          \* the failure that propagates to the caller of applyModel
    gen,          \* the result of toUpgradeDowngradePython
    python,       \* the result of toPython
    rendered      \* a column and the result of column_repr for it

vars == <<diff, declarative, pre, db, temp, pc, i, j, trans, saved, log, path, exc, gen,
          python, rendered>>

(***************************************************************************)
(* Sequence helpers.                                                       *)
(***************************************************************************)
Range(s) == {s[k] : k \in 1..Len(s)}

RECURSIVE Reverse(_)
Reverse(s) == IF s = <<>> THEN <<>> ELSE Reverse(Tail(s)) \o <<Head(s)>>

RECURSIVE Flatten(_)
Flatten(ss) == IF ss = <<>> THEN <<>> ELSE Head(ss) \o Flatten(Tail(ss))

IndexOf(s, x) == CHOOSE k \in 1..Len(s) : s[k] = x

(***************************************************************************)
(* Tables.  A table definition is the ordered sequence of its columns; a   *)
(* column is its name and its declaration.  A table of the database also   *)
(* holds rows, each a function from the table's column names to values.    *)
(* A name that denotes no table maps to NoTable.                           *)
(***************************************************************************)
NoTable == [exists |-> FALSE, cols |-> <<>>, rows |-> <<>>]

Column(n, d) == [name |-> n, decl |-> d]

ColNamesOf(t) == [k \in 1..Len(t.cols) |-> t.cols[k].name]

HasCol(t, n) == \E k \in 1..Len(t.cols) : t.cols[k].name = n

ColOf(t, n) == t.cols[CHOOSE k \in 1..Len(t.cols) : t.cols[k].name = n]

\* same column set with the same declarations, whatever the column order
SameDefinition(t, u) ==
    /\ t.exists = u.exists
    /\ Range(t.cols) = Range(u.cols)

\* the column sequences over a subset of the column names, in ColNames
\* order, the first na column names being alterable
ColSeqsOf(na) ==
    LET Pick == {p \in [1..Len(ColNames) -> {"absent", "Integer", "String"}] :
                    \A k \in 1..Len(ColNames) : p[k] \in {"absent"} \cup DeclsOf(k, na)}
        Build(p) == LET present == SelectSeq([k \in 1..Len(ColNames) |-> k],
                                             LAMBDA k : p[k] # "absent")
                    IN  [m \in 1..Len(present) |->
                            Column(ColNames[present[m]], p[present[m]])]
    IN  {Build(p) : p \in Pick} \ {<<>>}

\* the code never looks into a declaration, it only matters whether the
\* model and the database agree on it: the database reports ReflectedDecl
\* for every column, the model declares that or, for an alterable column,
\* another one
ModelColSeqs == ColSeqsOf(NumAlterable)
DbColSeqs == ColSeqsOf(0)

\* the rows of a table with column sequence cs holding n rows: row r holds
\* the value <<column, r>> in each column, so that no two cells are equal
RowsFor(cs, n) ==
    [r \in 1..n |-> [c \in {cs[k].name : k \in 1..Len(cs)} |-> <<c, r>>]]

ModelTables ==
    {NoTable} \cup {[exists |-> TRUE, cols |-> cs, rows |-> <<>>] : cs \in ModelColSeqs}

\* a reflected table lists its columns in the order the database reports
\* them, which need not be the model's order: here the reverse order
DbTables(n) ==
    {NoTable} \cup {[exists |-> TRUE, cols |-> Reverse(cs),
                     rows |-> RowsFor(cs, n)] : cs \in DbColSeqs}

(***************************************************************************)
(* The diff report (SchemaDiff), computed from the model and the database. *)
(***************************************************************************)
colDiff(modelTable, dbTable) ==
    [missingInDatabase |->
        SelectSeq(ColNamesOf(modelTable), LAMBDA n : ~HasCol(dbTable, n)),
     missingInModel |->
        SelectSeq(ColNamesOf(dbTable), LAMBDA n : ~HasCol(modelTable, n)),
     diffDecl |->
        SelectSeq(ColNamesOf(modelTable),
                  LAMBDA n : /\ HasCol(dbTable, n)
                             /\ ColOf(dbTable, n).decl # ColOf(modelTable, n).decl)]

NoColDiff == [missingInDatabase |-> <<>>, missingInModel |-> <<>>, diffDecl |-> <<>>]

\* slip: every table both sides have is listed as a table-with-diff
computeDiffListsEveryCommonTable(model, database, isSqlite) ==
    LET common(n) == model[n].exists /\ database[n].exists
        cd == [n \in TableSet |->
                 IF common(n) THEN colDiff(model[n], database[n]) ELSE NoColDiff]
    IN  [model |-> model,
         reflected_model |-> [n \in TableSet |-> [database[n] EXCEPT !.rows = <<>>]],
         sqlite |-> isSqlite,
         tablesMissingInModel |->
            SelectSeq(TableNames, LAMBDA n : database[n].exists /\ ~model[n].exists),
         tablesMissingInDatabase |->
            SelectSeq(TableNames, LAMBDA n : model[n].exists /\ ~database[n].exists),
         tablesWithDiff |->
            SelectSeq(TableNames, LAMBDA n : common(n)),
         colDiffs |-> cd]

computeDiff(model, database, isSqlite) ==
    LET common(n) == model[n].exists /\ database[n].exists
        cd == [n \in TableSet |->
                 IF common(n) THEN colDiff(model[n], database[n]) ELSE NoColDiff]
    IN  [model |-> model,
         reflected_model |-> [n \in TableSet |-> [database[n] EXCEPT !.rows = <<>>]],
         sqlite |-> isSqlite,
         tablesMissingInModel |->
            SelectSeq(TableNames, LAMBDA n : database[n].exists /\ ~model[n].exists),
         tablesMissingInDatabase |->
            SelectSeq(TableNames, LAMBDA n : model[n].exists /\ ~database[n].exists),
         tablesWithDiff |->
            SelectSeq(TableNames, LAMBDA n : common(n) /\ cd[n] # NoColDiff),
         colDiffs |-> cd]

(***************************************************************************)
(* What the statements applyModel issues do to the database.  db maps a    *)
(* table name to the live table, tmp maps a table name t to the temporary  *)
(* table '_temp_<t>' of the connection.                                    *)
(***************************************************************************)
\* table.drop()
DropTable(d, t) == [d EXCEPT ![t] = NoTable]

\* table.create(): the table exists under the given definition, without rows
CreateTable(d, t, defn) ==
    [d EXCEPT ![t] = [exists |-> TRUE, cols |-> defn.cols, rows |-> <<>>]]

\* modelTable.columns[name].create(): the column is added after the
\* existing ones and holds NULL in every existing row
ColumnCreate(d, t, col) ==
    [d EXCEPT ![t] =
        [exists |-> TRUE,
         cols |-> Append(d[t].cols, col),
         rows |-> [r \in 1..Len(d[t].rows) |->
                     [c \in DOMAIN d[t].rows[r] \cup {col.name} |->
                        IF c \in DOMAIN d[t].rows[r] THEN d[t].rows[r][c] ELSE NULL]]]]

\* slip: the drop is accepted and leaves the column in place
ColumnDropKeepsColumn(d, t, n) == d

\* dbTable.columns[name].drop(): the column and its values disappear
ColumnDrop(d, t, n) ==
    [d EXCEPT ![t] =
        [exists |-> TRUE,
         cols |-> SelectSeq(d[t].cols, LAMBDA c : c.name # n),
         rows |-> [r \in 1..Len(d[t].rows) |->
                     [c \in DOMAIN d[t].rows[r] \ {n} |-> d[t].rows[r][c]]]]]

\* slip: the alter is accepted and leaves the declaration as it was
ColumnAlterKeepsDeclaration(d, t, modelCol) == d

\* databaseCol.alter(modelCol): the column takes the model's declaration
ColumnAlter(d, t, modelCol) ==
    [d EXCEPT ![t].cols =
        [k \in 1..Len(d[t].cols) |->
            IF d[t].cols[k].name = modelCol.name THEN modelCol ELSE d[t].cols[k]]]

\* CREATE TEMPORARY TABLE _temp_<t> as SELECT * from <t>
CreateTempTable(tmp, d, t) == [tmp EXCEPT ![t] = d[t]]

\* DROP TABLE _temp_<t>
DropTempTable(tmp, t) == [tmp EXCEPT ![t] = NoTable]

\* slip: the common columns are listed in the order of the reflected table
getCopyStatementInDatabaseOrder(modelTable, dbTable) ==
    SelectSeq(ColNamesOf(dbTable), LAMBDA n : HasCol(modelTable, n))

\* the column list of the copy statement: the model columns that the
\* reflected table has too, in model column order
getCopyStatement(modelTable, dbTable) ==
    SelectSeq(ColNamesOf(modelTable), LAMBDA n : HasCol(dbTable, n))

\* INSERT INTO <t> (commonCols) SELECT commonCols FROM _temp_<t>: one new
\* row per row of the temporary table; a column outside the list is NULL
CopyRows(d, tmp, t, commonCols) ==
    [d EXCEPT ![t].rows =
        d[t].rows \o
        [r \in 1..Len(tmp[t].rows) |->
            [c \in Range(ColNamesOf(d[t])) |->
                IF c \in Range(commonCols) THEN tmp[t].rows[r][c] ELSE NULL]]]

\* an INSERT with an empty column list is not a statement sqlite accepts
CopyCanSucceed(commonCols) == commonCols # <<>>

(***************************************************************************)
(* applyModel: decisions and control flow.                                 *)
(***************************************************************************)
\* slips: the test for columns missing in the model is left out; the
\* additive case is not singled out at all
dbCanHandleIgnoresMissingInModel(missingInDatabase, missingInModel, diffDecl, isSqlite) ==
    IF missingInDatabase # <<>> /\ diffDecl = <<>>
    THEN TRUE
    ELSE ~isSqlite

dbCanHandleOnlyAsksDialect(missingInDatabase, missingInModel, diffDecl, isSqlite) ==
    ~isSqlite

dbCanHandleThisChange(missingInDatabase, missingInModel, diffDecl, isSqlite) ==
    IF missingInDatabase # <<>> /\ missingInModel = <<>> /\ diffDecl = <<>>
    THEN TRUE
    ELSE ~isSqlite

\* the three table loops of applyModel, in the order they run
TableLoops(d) == <<d.tablesMissingInModel, d.tablesMissingInDatabase, d.tablesWithDiff>>
TableLoopPc == <<"drop", "create", "diff", "returned">>

\* the position reached when loop p stands before its k-th table: a loop
\* that is exhausted gives way to the next one, the last one to the return
RECURSIVE TablePos(_, _, _)
TablePos(d, p, k) ==
    IF p > 3 THEN [pc |-> "returned", i |-> 0]
    ELSE IF k <= Len(TableLoops(d)[p]) THEN [pc |-> TableLoopPc[p], i |-> k]
    ELSE TablePos(d, p + 1, 1)

\* the three column loops of the direct path, in the order they run
ColumnLoops(cd) == <<cd.missingInDatabase, cd.missingInModel, cd.diffDecl>>
ColumnLoopPc == <<"colCreate", "colDrop", "colAlter", "tableDone">>

RECURSIVE ColumnPos(_, _, _)
ColumnPos(cd, q, k) ==
    IF q > 3 THEN [pc |-> "tableDone", j |-> 0]
    ELSE IF k <= Len(ColumnLoops(cd)[q]) THEN [pc |-> ColumnLoopPc[q], j |-> k]
    ELSE ColumnPos(cd, q + 1, 1)

\* slip: the original is dropped before it was copied to the temporary table
RebuildOrderDropsFirst ==
    <<"dropOrig", "createTemp", "createNew", "copy", "dropTemp", "commit">>

\* slip: the commit is issued before the temporary table is dropped
RebuildOrderCommitsEarly ==
    <<"createTemp", "dropOrig", "createNew", "copy", "commit", "dropTemp">>

\* the statements of the rebuild, in the order the try block issues them
RebuildOrder == <<"createTemp", "dropOrig", "createNew", "copy", "dropTemp", "commit">>

\* slips: the except clause re-raises without rolling back; the rollback
\* reaches back to the start of the call
NoRollback(current, atBegin) == current

RollbackWholeCall(current, atBegin) == [db |-> pre, temp |-> atBegin.temp]

\* the except clause: trans.rollback() undoes every statement issued on the
\* connection since connection.begin()
Rollback(current, atBegin) == atBegin

\* a statement: its kind, its table, the columns it names and its outcome
Stmt(kind, t, cs, ok) == [stmt |-> kind, table |-> t, cols |-> cs, ok |-> ok]
NoStmt == Stmt("none", "", <<>>, TRUE)
NoGen == [status |-> "none", decls |-> <<>>, upgrade |-> <<>>, downgrade |-> <<>>]
NoPython == [status |-> "none", text |-> <<>>]

\* a column as column_repr reads it: name, key, primary_key (as stored:
\* False, True or 1), nullable, onupdate and default (None or the repr of
\* the expression), the reprs of its constraints, the repr of its type
SchemaColumn(n, k, pk, nl, ou, df, cns, ty) ==
    [name |-> n, key |-> k, primary_key |-> pk, nullable |-> nl,
     onupdate |-> ou, default |-> df, constraints |-> cns, type |-> ty]

\* a column of a table definition, all attributes left at their defaults
PlainColumn(col) ==
    SchemaColumn(col.name, col.name, "False", TRUE, "None", "None", <<>>, col.decl)

NoRendered == [status |-> "none", col |-> PlainColumn(Column("id", ReflectedDecl)),
               line |-> <<>>]

\* the inputs: a model, a database with n rows per table, and a dialect
Inputs(model, database, isSqlite) ==
    /\ diff = computeDiff(model, database, isSqlite)
    /\ pre = database
    /\ db = database
    /\ temp = [t \in TableSet |-> NoTable]
    /\ pc = "start"
    /\ i = 0
    /\ j = 0
    /\ trans = "none"
    /\ saved = [db |-> database, temp |-> [t \in TableSet |-> NoTable]]
    /\ log = <<>>
    /\ path = [t \in TableSet |-> "none"]
    /\ exc = NoStmt
    /\ gen = NoGen
    /\ python = NoPython

Init ==
    /\ declarative = FALSE
    /\ rendered = NoRendered
    /\ \E n \in {0, MaxRows}, isSqlite \in BOOLEAN :
       \E model \in [TableSet -> ModelTables], database \in [TableSet -> DbTables(n)] :
          Inputs(model, database, isSqlite)

(***************************************************************************)
(* applyModel, one action per statement it issues.                         *)
(***************************************************************************)
GoTo(pos) == /\ pc' = pos.pc
             /\ i' = pos.i
             /\ j' = 0

\* a statement outside the try block failed: the failure propagates
Raise(s) ==
    /\ pc' = "raised"
    /\ exc' = s
    /\ log' = Append(log, s)
    /\ UNCHANGED <<db, temp, trans, saved, i, j>>

\* lines 179-188
Start ==
    /\ pc = "start"
    /\ GoTo(TablePos(diff, 1, 1))
    /\ UNCHANGED <<diff, declarative, pre, db, temp, trans, saved, log, path, exc, gen, python, rendered>>

\* lines 190-192: drop a table that is missing in the model
DropMissingInModel ==
    /\ pc = "drop"
    /\ LET t == diff.tablesMissingInModel[i] IN
       \E ok \in BOOLEAN :
          IF ok THEN /\ db' = DropTable(db, t)
                     /\ log' = Append(log, Stmt("DROP TABLE", t, <<>>, TRUE))
                     /\ GoTo(TablePos(diff, 1, i + 1))
                     /\ UNCHANGED <<temp, trans, saved, exc>>
                ELSE Raise(Stmt("DROP TABLE", t, <<>>, FALSE))
    /\ UNCHANGED <<diff, declarative, pre, path, gen, python, rendered>>

\* lines 193-195: create a table that is missing in the database
CreateMissingInDatabase ==
    /\ pc = "create"
    /\ LET t == diff.tablesMissingInDatabase[i] IN
       \E ok \in BOOLEAN :
          IF ok THEN /\ db' = CreateTable(db, t, diff.model[t])
                     /\ log' = Append(log, Stmt("CREATE TABLE", t, <<>>, TRUE))
                     /\ GoTo(TablePos(diff, 2, i + 1))
                     /\ UNCHANGED <<temp, trans, saved, exc>>
                ELSE Raise(Stmt("CREATE TABLE", t, <<>>, FALSE))
    /\ UNCHANGED <<diff, declarative, pre, path, gen, python, rendered>>

\* the position after the k-th column of column loop q of the current table
AfterColumn(cd, q, k) ==
    LET pos == ColumnPos(cd, q, k)
    IN  IF pos.pc = "tableDone" THEN /\ GoTo(TablePos(diff, 3, i + 1))
        ELSE /\ pc' = pos.pc
             /\ i' = i
             /\ j' = pos.j

\* lines 196-203 and 210-216: pick the path for the next table-with-diff
ChoosePath ==
    /\ pc = "diff"
    /\ LET t == diff.tablesWithDiff[i]
           cd == diff.colDiffs[t]
       IN  IF dbCanHandleThisChange(cd.missingInDatabase, cd.missingInModel,
                                    cd.diffDecl, diff.sqlite)
           THEN /\ path' = [path EXCEPT ![t] = "direct"]
                /\ AfterColumn(cd, 1, 1)
           ELSE /\ path' = [path EXCEPT ![t] = "rebuild"]
                /\ pc' = "begin"
                /\ UNCHANGED <<i, j>>
    /\ UNCHANGED <<diff, declarative, pre, db, temp, trans, saved, log, exc, gen, python, rendered>>

\* lines 204-205
ColumnCreateStep ==
    /\ pc = "colCreate"
    /\ LET t == diff.tablesWithDiff[i]
           cd == diff.colDiffs[t]
           c == cd.missingInDatabase[j]
       IN  \E ok \in BOOLEAN :
              IF ok THEN /\ db' = ColumnCreate(db, t, ColOf(diff.model[t], c))
                         /\ log' = Append(log, Stmt("ADD COLUMN", t, <<c>>, TRUE))
                         /\ AfterColumn(cd, 1, j + 1)
                         /\ UNCHANGED <<temp, trans, saved, exc>>
                    ELSE Raise(Stmt("ADD COLUMN", t, <<c>>, FALSE))
    /\ UNCHANGED <<diff, declarative, pre, path, gen, python, rendered>>

\* lines 206-207
ColumnDropStep ==
    /\ pc = "colDrop"
    /\ LET t == diff.tablesWithDiff[i]
           cd == diff.colDiffs[t]
           c == cd.missingInModel[j]
       IN  \E ok \in BOOLEAN :
              IF ok THEN /\ db' = ColumnDrop(db, t, c)
                         /\ log' = Append(log, Stmt("DROP COLUMN", t, <<c>>, TRUE))
                         /\ AfterColumn(cd, 2, j + 1)
                         /\ UNCHANGED <<temp, trans, saved, exc>>
                    ELSE Raise(Stmt("DROP COLUMN", t, <<c>>, FALSE))
    /\ UNCHANGED <<diff, declarative, pre, path, gen, python, rendered>>

\* lines 208-209
ColumnAlterStep ==
    /\ pc = "colAlter"
    /\ LET t == diff.tablesWithDiff[i]
           cd == diff.colDiffs[t]
           c == cd.diffDecl[j]
       IN  \E ok \in BOOLEAN :
              IF ok THEN /\ db' = ColumnAlter(db, t, ColOf(diff.model[t], c))
                         /\ log' = Append(log, Stmt("ALTER COLUMN", t, <<c>>, TRUE))
                         /\ AfterColumn(cd, 3, j + 1)
                         /\ UNCHANGED <<temp, trans, saved, exc>>
                    ELSE Raise(Stmt("ALTER COLUMN", t, <<c>>, FALSE))
    /\ UNCHANGED <<diff, declarative, pre, path, gen, python, rendered>>

\* lines 230-231: connect and begin the transaction (outside the try block)
Begin ==
    /\ pc = "begin"
    /\ LET t == diff.tablesWithDiff[i] IN
       \E ok \in BOOLEAN :
          IF ok THEN /\ trans' = "open"
                     /\ saved' = [db |-> db, temp |-> temp]
                     /\ log' = Append(log, Stmt("BEGIN", t, <<>>, TRUE))
                     /\ pc' = RebuildOrder[1]
                     /\ UNCHANGED <<db, temp, exc, i, j>>
                ELSE Raise(Stmt("BEGIN", t, <<>>, FALSE))
    /\ UNCHANGED <<diff, declarative, pre, path, gen, python, rendered>>

\* the statement after a rebuild step that succeeded; after the commit
\* applyModel moves to the next table-with-diff
AfterRebuildStep(step) ==
    LET k == IndexOf(RebuildOrder, step)
    IN  IF k < Len(RebuildOrder)
        THEN /\ pc' = RebuildOrder[k + 1]
             /\ UNCHANGED <<i, j>>
        ELSE GoTo(TablePos(diff, 3, i + 1))

\* lines 243-245: a statement of the try block failed; roll back, re-raise
Except(s) ==
    LET r == Rollback([db |-> db, temp |-> temp], saved)
    IN  /\ db' = r.db
        /\ temp' = r.temp
        /\ trans' = "rolledback"
        /\ log' = log \o <<s, Stmt("ROLLBACK", s.table, <<>>, TRUE)>>
        /\ exc' = s
        /\ pc' = "raised"
        /\ UNCHANGED <<saved, i, j>>

\* lines 233-235
CreateTemp ==
    /\ pc = "createTemp"
    /\ LET t == diff.tablesWithDiff[i] IN
       \E ok \in BOOLEAN :
          IF ok THEN /\ temp' = CreateTempTable(temp, db, t)
                     /\ log' = Append(log, Stmt("CREATE TEMPORARY TABLE", t, <<>>, TRUE))
                     /\ AfterRebuildStep("createTemp")
                     /\ UNCHANGED <<db, trans, saved, exc>>
                ELSE Except(Stmt("CREATE TEMPORARY TABLE", t, <<>>, FALSE))
    /\ UNCHANGED <<diff, declarative, pre, path, gen, python, rendered>>

\* line 238
DropOriginal ==
    /\ pc = "dropOrig"
    /\ LET t == diff.tablesWithDiff[i] IN
       \E ok \in BOOLEAN :
          IF ok THEN /\ db' = DropTable(db, t)
                     /\ log' = Append(log, Stmt("DROP TABLE", t, <<>>, TRUE))
                     /\ AfterRebuildStep("dropOrig")
                     /\ UNCHANGED <<temp, trans, saved, exc>>
                ELSE Except(Stmt("DROP TABLE", t, <<>>, FALSE))
    /\ UNCHANGED <<diff, declarative, pre, path, gen, python, rendered>>

\* line 239
CreateNew ==
    /\ pc = "createNew"
    /\ LET t == diff.tablesWithDiff[i] IN
       \E ok \in BOOLEAN :
          IF ok THEN /\ db' = CreateTable(db, t, diff.model[t])
                     /\ log' = Append(log, Stmt("CREATE TABLE", t, <<>>, TRUE))
                     /\ AfterRebuildStep("createNew")
                     /\ UNCHANGED <<temp, trans, saved, exc>>
                ELSE Except(Stmt("CREATE TABLE", t, <<>>, FALSE))
    /\ UNCHANGED <<diff, declarative, pre, path, gen, python, rendered>>

\* lines 218-226 and 240
CopyStep ==
    /\ pc = "copy"
    /\ LET t == diff.tablesWithDiff[i]
           commonCols == getCopyStatement(diff.model[t], diff.reflected_model[t])
       IN  \E ok \in BOOLEAN :
              IF ok /\ CopyCanSucceed(commonCols)
              THEN /\ db' = CopyRows(db, temp, t, commonCols)
                   /\ log' = Append(log, Stmt("INSERT SELECT", t, commonCols, TRUE))
                   /\ AfterRebuildStep("copy")
                   /\ UNCHANGED <<temp, trans, saved, exc>>
              ELSE Except(Stmt("INSERT SELECT", t, commonCols, FALSE))
    /\ UNCHANGED <<diff, declarative, pre, path, gen, python, rendered>>

\* line 241
DropTemp ==
    /\ pc = "dropTemp"
    /\ LET t == diff.tablesWithDiff[i] IN
       \E ok \in BOOLEAN :
          IF ok THEN /\ temp' = DropTempTable(temp, t)
                     /\ log' = Append(log, Stmt("DROP TEMP TABLE", t, <<>>, TRUE))
                     /\ AfterRebuildStep("dropTemp")
                     /\ UNCHANGED <<db, trans, saved, exc>>
                ELSE Except(Stmt("DROP TEMP TABLE", t, <<>>, FALSE))
    /\ UNCHANGED <<diff, declarative, pre, path, gen, python, rendered>>

\* line 242
Commit ==
    /\ pc = "commit"
    /\ LET t == diff.tablesWithDiff[i] IN
       \E ok \in BOOLEAN :
          IF ok THEN /\ trans' = "committed"
                     /\ log' = Append(log, Stmt("COMMIT", t, <<>>, TRUE))
                     /\ AfterRebuildStep("commit")
                     /\ UNCHANGED <<db, temp, saved, exc>>
                ELSE Except(Stmt("COMMIT", t, <<>>, FALSE))
    /\ UNCHANGED <<diff, declarative, pre, path, gen, python, rendered>>

Next ==
    \/ Start
    \/ DropMissingInModel
    \/ CreateMissingInDatabase
    \/ ChoosePath
    \/ ColumnCreateStep
    \/ ColumnDropStep
    \/ ColumnAlterStep
    \/ Begin
    \/ CreateTemp
    \/ DropOriginal
    \/ CreateNew
    \/ CopyStep
    \/ DropTemp
    \/ Commit

Spec == Init /\ [][Next]_vars

(***************************************************************************)
(* The generator.  A text is the sequence of its lines; a line is the      *)
(* sequence of the fragments the format string is assembled from.          *)
(***************************************************************************)
\* ', '.join(parts)
RECURSIVE Join(_)
Join(parts) ==
    IF parts = <<>> THEN <<>>
    ELSE IF Len(parts) = 1 THEN Head(parts)
    ELSE Head(parts) \o <<", ">> \o Join(Tail(parts))

Truthy(v) == v \notin {"False", "None"}

\* slip: the default of a primary key is rendered too
kwargKeepsPrimaryKeyDefault(col) ==
    (IF col.key # col.name THEN <<"key">> ELSE <<>>)
    \o (IF Truthy(col.primary_key) THEN <<"primary_key">> ELSE <<>>)
    \o (IF ~col.nullable THEN <<"nullable">> ELSE <<>>)
    \o (IF Truthy(col.onupdate) THEN <<"onupdate">> ELSE <<>>)
    \o (IF Truthy(col.default) THEN <<"default">> ELSE <<>>)

\* the names of the keyword arguments column_repr renders (lines 42-59)
kwarg(col) ==
    (IF col.key # col.name THEN <<"key">> ELSE <<>>)
    \o (IF Truthy(col.primary_key) THEN <<"primary_key">> ELSE <<>>)
    \o (IF ~col.nullable THEN <<"nullable">> ELSE <<>>)
    \o (IF Truthy(col.onupdate) THEN <<"onupdate">> ELSE <<>>)
    \o (IF Truthy(col.default)
        THEN IF Truthy(col.primary_key) THEN <<>> ELSE <<"default">>
        ELSE <<>>)

\* '%r' % getattr(col, k), after col.primary_key was set to True
AttrRepr(col, k) ==
    CASE k = "key" -> <<"'", col.key, "'">>
      [] k = "primary_key" -> <<"True">>
      [] k = "nullable" -> <<IF col.nullable THEN "True" ELSE "False">>
      [] k = "onupdate" -> <<col.onupdate>>
      [] k = "default" -> <<col.default>>

\* column_repr; the type of the column is taken to be generic already
column_repr(col, decl) ==
    LET kw == kwarg(col)
        ks == Join([m \in 1..Len(kw) |-> <<kw[m], "=">> \o AttrRepr(col, kw[m])])
        constraints == Join([m \in 1..Len(col.constraints) |-> <<col.constraints[m]>>])
        args == IF constraints # <<>> /\ ks # <<>> THEN <<",">> \o ks ELSE ks
        commonStuff == IF constraints # <<>> \/ args # <<>>
                       THEN <<",", " ">> \o constraints \o <<" ">> \o args \o <<")">>
                       ELSE <<")">>
    IN  IF decl THEN <<col.name, " = Column(", col.type>> \o commonStuff
                ELSE <<"Column('", col.name, "', ", col.type>> \o commonStuff

\* slip: the column loop starts at the second column
getTableDefnSkipsFirstColumn(tableName, table, decl) ==
    IF decl
    THEN <<  <<"class ", tableName, "(Base):">>,
             <<"  __tablename__ = '", tableName, "'">>  >>
         \o [k \in 1..(Len(table.cols) - 1) |->
                <<"  ">> \o column_repr(PlainColumn(table.cols[k + 1]), decl)]
    ELSE <<  <<tableName, " = Table('", tableName, "', meta,">>  >>
         \o [k \in 1..(Len(table.cols) - 1) |->
                <<"  ">> \o column_repr(PlainColumn(table.cols[k + 1]), decl) \o <<",">>]
         \o << <<")">> >>

getTableDefn(tableName, table, decl) ==
    IF decl
    THEN <<  <<"class ", tableName, "(Base):">>,
             <<"  __tablename__ = '", tableName, "'">>  >>
         \o [k \in 1..Len(table.cols) |->
                <<"  ">> \o column_repr(PlainColumn(table.cols[k]), decl)]
    ELSE <<  <<tableName, " = Table('", tableName, "', meta,">>  >>
         \o [k \in 1..Len(table.cols) |->
                <<"  ">> \o column_repr(PlainColumn(table.cols[k]), decl) \o <<",">>]
         \o << <<")">> >>

TableDrop(t) == <<t, ".drop()">>
TableCreate(t) == <<t, ".create()">>
ColumnCreateLine(t, c) == <<t, ".columns['", c, "'].create()">>
ColumnDropLine(t, c) == <<t, ".columns['", c, "'].drop()">>
AlterFormat == <<"assert False, \"Can't alter columns: %s:%s=>%s\"">>

\* the argument lists of the calls upgradeCommands.append(...) makes, in
\* the order toUpgradeDowngradePython makes them
UpgradeCalls(d) ==
    [k \in 1..Len(d.tablesMissingInModel) |-> << TableDrop(d.tablesMissingInModel[k]) >>]
    \o [k \in 1..Len(d.tablesMissingInDatabase) |->
           << TableCreate(d.tablesMissingInDatabase[k]) >>]
    \o Flatten([k \in 1..Len(d.tablesWithDiff) |->
          LET t == d.tablesWithDiff[k]
              cd == d.colDiffs[t]
          IN  [m \in 1..Len(cd.missingInDatabase) |->
                  << ColumnCreateLine(t, cd.missingInDatabase[m]) >>]
              \o [m \in 1..Len(cd.missingInModel) |->
                  << ColumnDropLine(t, cd.missingInModel[m]) >>]
              \o [m \in 1..Len(cd.diffDecl) |->
                  << AlterFormat, t, cd.diffDecl[m], cd.diffDecl[m] >>]])

\* slip: the table loops of the downgrade repeat the upgrade's operations
DowngradeCallsRepeatTableOps(d) ==
    [k \in 1..Len(d.tablesMissingInModel) |-> << TableDrop(d.tablesMissingInModel[k]) >>]
    \o [k \in 1..Len(d.tablesMissingInDatabase) |->
           << TableCreate(d.tablesMissingInDatabase[k]) >>]
    \o Flatten([k \in 1..Len(d.tablesWithDiff) |->
          LET t == d.tablesWithDiff[k]
              cd == d.colDiffs[t]
          IN  [m \in 1..Len(cd.missingInDatabase) |->
                  << ColumnDropLine(t, cd.missingInDatabase[m]) >>]
              \o [m \in 1..Len(cd.missingInModel) |->
                  << ColumnCreateLine(t, cd.missingInModel[m]) >>]
              \o [m \in 1..Len(cd.diffDecl) |->
                  << AlterFormat, t, cd.diffDecl[m], cd.diffDecl[m] >>]])

\* the argument lists of the calls downgradeCommands.append(...) makes
DowngradeCalls(d) ==
    [k \in 1..Len(d.tablesMissingInModel) |-> << TableCreate(d.tablesMissingInModel[k]) >>]
    \o [k \in 1..Len(d.tablesMissingInDatabase) |->
           << TableDrop(d.tablesMissingInDatabase[k]) >>]
    \o Flatten([k \in 1..Len(d.tablesWithDiff) |->
          LET t == d.tablesWithDiff[k]
              cd == d.colDiffs[t]
          IN  [m \in 1..Len(cd.missingInDatabase) |->
                  << ColumnDropLine(t, cd.missingInDatabase[m]) >>]
              \o [m \in 1..Len(cd.missingInModel) |->
                  << ColumnCreateLine(t, cd.missingInModel[m]) >>]
              \o [m \in 1..Len(cd.diffDecl) |->
                  << AlterFormat, t, cd.diffDecl[m], cd.diffDecl[m] >>]])

\* list.append takes exactly one argument: a call with more raises TypeError
RECURSIVE RunAppends(_, _)
RunAppends(list, calls) ==
    IF calls = <<>> THEN [raised |-> FALSE, list |-> list]
    ELSE IF Len(Head(calls)) # 1 THEN [raised |-> TRUE, list |-> list]
    ELSE RunAppends(Append(list, Head(calls)[1]), Tail(calls))

pre_command == <<"    meta.bind = migrate_engine">>

\* slip: the binding line is left out when there is nothing to run
IndentedBindsOnlyCommands(indent, commands) ==
    IF commands = <<>> THEN <<>>
    ELSE <<pre_command>> \o [k \in 1..Len(commands) |-> <<indent>> \o commands[k]]

Indented(indent, commands) ==
    <<pre_command>> \o [k \in 1..Len(commands) |-> <<indent>> \o commands[k]]

toUpgradeDowngradePython(d, decl, indent) ==
    LET declTables == d.tablesMissingInModel \o d.tablesMissingInDatabase
        decls == << <<"from migrate.changeset import schema">>,
                    <<"meta = MetaData(migrate_engine)">> >>
                 \o Flatten([k \in 1..Len(declTables) |->
                       LET t == declTables[k]
                       IN  getTableDefn(t, IF k <= Len(d.tablesMissingInModel)
                                           THEN d.reflected_model[t]
                                           ELSE d.model[t], decl)])
        up == RunAppends(<<>>, UpgradeCalls(d))
        down == RunAppends(<<>>, DowngradeCalls(d))
    IN  IF up.raised \/ down.raised
        THEN [status |-> "raised", decls |-> <<>>, upgrade |-> <<>>, downgrade |-> <<>>]
        ELSE [status |-> "returned",
              decls |-> decls,
              upgrade |-> Indented(indent, up.list),
              downgrade |-> Indented(indent, down.list)]

\* the default indent of toUpgradeDowngradePython
DefaultIndent == "    "

ToUpgradeDowngradePython ==
    /\ gen.status = "none"
    /\ gen' = toUpgradeDowngradePython(diff, declarative, DefaultIndent)
    /\ UNCHANGED <<diff, declarative, pre, db, temp, pc, i, j, trans, saved, log, path, exc,
                   python, rendered>>

HEADER ==
    <<"\n## File autogenerated by genmodel.py\n\nfrom sqlalchemy import *\nmeta = MetaData()\n">>

DECLARATIVE_HEADER ==
    <<"\n## File autogenerated by genmodel.py\n\nfrom sqlalchemy import *\nfrom sqlalchemy.ext import declarative\n\nBase = declarative.declarative_base()\n">>

EmptyLine == <<"">>

\* slip: the tables of the model are declared too
toPythonDeclaresModelTables(d, decl) ==
    << IF decl THEN DECLARATIVE_HEADER ELSE HEADER, EmptyLine >>
    \o Flatten([k \in 1..Len(d.tablesMissingInModel) |->
          getTableDefn(d.tablesMissingInModel[k],
                       d.reflected_model[d.tablesMissingInModel[k]], decl)
          \o <<EmptyLine>>])
    \o Flatten([k \in 1..Len(d.tablesMissingInDatabase) |->
          getTableDefn(d.tablesMissingInDatabase[k],
                       d.model[d.tablesMissingInDatabase[k]], decl)
          \o <<EmptyLine>>])

\* the elements of out, which toPython joins with newlines
toPython(d, decl) ==
    << IF decl THEN DECLARATIVE_HEADER ELSE HEADER, EmptyLine >>
    \o Flatten([k \in 1..Len(d.tablesMissingInModel) |->
          getTableDefn(d.tablesMissingInModel[k],
                       d.reflected_model[d.tablesMissingInModel[k]], decl)
          \o <<EmptyLine>>])

ToPython ==
    /\ python.status = "none"
    /\ python' = [status |-> "returned", text |-> toPython(diff, declarative)]
    /\ UNCHANGED <<diff, declarative, pre, db, temp, pc, i, j, trans, saved, log, path, exc,
                   gen, rendered>>

GenInit ==
    /\ declarative \in BOOLEAN
    /\ rendered = NoRendered
    /\ \E model \in [TableSet -> ModelTables], database \in [TableSet -> DbTables(0)] :
          Inputs(model, database, FALSE)

GenNext ==
    \/ ToUpgradeDowngradePython
    \/ ToPython

GenSpec == GenInit /\ [][GenNext]_vars

(***************************************************************************)
(* column_repr on its own, over columns with every attribute.              *)
(***************************************************************************)
ConstraintPool == <<"ForeignKey('accounts.id')", "CheckConstraint('id > 0')",
                    "UniqueConstraint()">>

SchemaColumns ==
    {SchemaColumn(n, IF aliased THEN "alias" ELSE n, pk, nl, ou, df,
                  SubSeq(ConstraintPool, 1, nc), ty) :
        n \in ColSet, aliased \in BOOLEAN, pk \in {"False", "True", "1"},
        nl \in BOOLEAN, ou \in {"None", "ColumnDefault(now)"},
        df \in {"None", "ColumnDefault(0)"}, nc \in 0..MaxConstraints,
        ty \in {"Integer()"}}

ColumnRepr ==
    /\ rendered.status = "none"
    /\ rendered' = [status |-> "returned",
                    col |-> [rendered.col EXCEPT !.primary_key =
                               IF Truthy(@) THEN "True" ELSE @],
                    line |-> column_repr(rendered.col, declarative)]
    /\ UNCHANGED <<diff, declarative, pre, db, temp, pc, i, j, trans, saved, log, path, exc,
                   gen, python>>

ReprInit ==
    /\ declarative \in BOOLEAN
    /\ \E c \in SchemaColumns : rendered = [status |-> "none", col |-> c, line |-> <<>>]
    /\ Inputs([t \in TableSet |-> NoTable], [t \in TableSet |-> NoTable], FALSE)

ReprNext == ColumnRepr

ReprSpec == ReprInit /\ [][ReprNext]_vars

(***************************************************************************)
(* Properties of applyModel.                                               *)
(***************************************************************************)
\* the statements issued for table t, in the order they were issued
EntriesFor(t) == SelectSeq(log, LAMBDA e : e.table = t)

\* the tables applyModel processes, in the order it processes them
ProcessingOrder ==
    diff.tablesMissingInModel \o diff.tablesMissingInDatabase \o diff.tablesWithDiff

Terminated == pc \in {"returned", "raised"}

\* applyModel has finished with table t and moved on (or returned)
Finished(t) ==
    /\ t \in Range(ProcessingOrder)
    /\ pc # "start"
    /\ \/ pc = "returned"
       \/ /\ pc = "raised"
          /\ IndexOf(ProcessingOrder, t) < IndexOf(ProcessingOrder, exc.table)
       \/ /\ pc \notin {"returned", "raised"}
          /\ LET p == IF pc = "drop" THEN 1 ELSE IF pc = "create" THEN 2 ELSE 3
                 cur == TableLoops(diff)[p][i]
             IN  IndexOf(ProcessingOrder, t) < IndexOf(ProcessingOrder, cur)

OnlyAdditive(cd) ==
    cd.missingInDatabase # <<>> /\ cd.missingInModel = <<>> /\ cd.diffDecl = <<>>

RebuildStatements ==
    <<"BEGIN", "CREATE TEMPORARY TABLE", "DROP TABLE", "CREATE TABLE",
      "INSERT SELECT", "DROP TEMP TABLE", "COMMIT">>
ColumnStatements == {"ADD COLUMN", "DROP COLUMN", "ALTER COLUMN"}

\* C1: when a statement of the rebuild of a table fails, the transaction is
\* rolled back, the live table has the definition and the rows it had
\* before the call, no temporary table remains, and the failure that
\* propagates is the failure of that statement.
C1_RebuildFailureRollsBack ==
    \A t \in TableSet :
       (pc = "raised" /\ path[t] = "rebuild" /\ exc.table = t /\ exc.stmt # "BEGIN")
       => /\ trans = "rolledback"
          /\ db[t] = pre[t]
          /\ temp[t] = NoTable
          /\ Len(log) >= 2
          /\ log[Len(log)].stmt = "ROLLBACK"
          /\ log[Len(log) - 1] = exc
          /\ ~exc.ok
          /\ exc.stmt \in Range(Tail(RebuildStatements))

\* a rebuild failed at the copy, after the original was dropped, on a table
\* that held rows
C1_Witness ==
    \E t \in TableSet :
       /\ pc = "raised" /\ path[t] = "rebuild" /\ exc.table = t
       /\ exc.stmt = "INSERT SELECT"
       /\ pre[t].rows # <<>>

\* C2: the statements of a rebuild are issued inside one transaction in the
\* order create temporary table, drop original, create under the model
\* definition, copy restricted to the common columns, drop temporary table,
\* commit; each one only after its predecessor succeeded, and none is
\* skipped on a successful rebuild.
C2_RebuildOrder ==
    \A t \in TableSet :
       path[t] = "rebuild" =>
          LET es == EntriesFor(t)
              n == Len(es)
              common == {c \in ColSet : HasCol(diff.model[t], c) /\ HasCol(pre[t], c)}
          IN  /\ n <= Len(RebuildStatements) + 1
              /\ \A k \in 1..n :
                    IF es[k].stmt = "ROLLBACK"
                    THEN k = n /\ k > 2 /\ ~es[k - 1].ok
                    ELSE /\ k <= Len(RebuildStatements)
                         /\ es[k].stmt = RebuildStatements[k]
                         /\ (k < n /\ es[k + 1].stmt # "ROLLBACK") => es[k].ok
                         /\ (k < n /\ es[k + 1].stmt = "ROLLBACK") => ~es[k].ok
              /\ \A k \in 1..n :
                    es[k].stmt = "INSERT SELECT" =>
                       /\ Range(es[k].cols) = common
                       /\ Len(es[k].cols) = Cardinality(common)
              /\ Finished(t) =>
                    /\ n = Len(RebuildStatements)
                    /\ \A k \in 1..n : es[k].ok
              /\ (pc \in {"dropOrig", "createNew", "copy", "dropTemp"}
                    /\ diff.tablesWithDiff[i] = t) => temp[t] = pre[t]
              /\ (pc \in {"copy", "dropTemp", "commit"}
                    /\ diff.tablesWithDiff[i] = t) => db[t].cols = diff.model[t].cols

\* applyModel returned after a rebuild
C2_Witness ==
    /\ pc = "returned"
    /\ \E t \in TableSet : path[t] = "rebuild" /\ pre[t].rows # <<>>

\* C3: a table-with-diff takes the direct path when its change set has only
\* columns missing in the database, whatever the dialect; any other change
\* set takes the direct path iff the driver is not sqlite and the rebuild
\* path otherwise; exactly one of the two paths is taken per table.
C3_PathChoice ==
    \A t \in TableSet :
       LET cd == diff.colDiffs[t]
           kinds == {e.stmt : e \in Range(EntriesFor(t))}
       IN  /\ path[t] # "none" =>
                /\ t \in Range(diff.tablesWithDiff)
                /\ path[t] = "direct" <=> (OnlyAdditive(cd) \/ ~diff.sqlite)
                /\ path[t] = "rebuild" <=> (~OnlyAdditive(cd) /\ diff.sqlite)
           /\ path[t] = "direct" => kinds \subseteq ColumnStatements
           /\ path[t] = "rebuild" =>
                kinds \subseteq Range(RebuildStatements) \cup {"ROLLBACK"}
           /\ path[t] = "none" => kinds \cap (ColumnStatements \cup {"BEGIN"}) = {}
           /\ (t \in Range(diff.tablesWithDiff) /\ Finished(t)) => path[t] # "none"

\* one call on sqlite took the direct path for one table and the rebuild
\* path for another
C3_Witness ==
    /\ pc = "returned"
    /\ diff.sqlite
    /\ \E t, u \in TableSet : path[t] = "direct" /\ path[u] = "rebuild"

\* C4: for a table-with-diff whose change set has only columns missing in
\* the database, on any dialect, no temporary table is created and no
\* transaction is begun: the statements issued for it are one column-create
\* per missing column and nothing else.
C4_AdditiveOnlyCreatesColumns ==
    \A t \in Range(diff.tablesWithDiff) :
       LET cd == diff.colDiffs[t]
           es == EntriesFor(t)
       IN  OnlyAdditive(cd) =>
              /\ temp[t] = NoTable
              /\ Len(es) <= Len(cd.missingInDatabase)
              /\ \A k \in 1..Len(es) :
                    /\ es[k].stmt = "ADD COLUMN"
                    /\ es[k].cols = <<cd.missingInDatabase[k]>>
              /\ Finished(t) => Len(es) = Len(cd.missingInDatabase)
              /\ (pc \in {"colCreate", "colDrop", "colAlter"}
                    /\ diff.tablesWithDiff[i] = t) => trans # "open"

\* on sqlite, a table with two columns missing in the database was brought
\* up to date
C4_Witness ==
    /\ pc = "returned"
    /\ diff.sqlite
    /\ \E t \in Range(diff.tablesWithDiff) :
          /\ OnlyAdditive(diff.colDiffs[t])
          /\ Len(diff.colDiffs[t].missingInDatabase) = 2
          /\ Len(EntriesFor(t)) = 2

\* the change set of table t is applied in full
FullyApplied(t) ==
    IF t \in Range(diff.tablesMissingInModel)
    THEN ~db[t].exists
    ELSE SameDefinition(db[t], diff.model[t])

\* C5 as stated: when applyModel returns or raises, the change set of every
\* table it processed, on either path, is fully applied or not applied at
\* all.
C5_AllOrNothingPerTable ==
    Terminated =>
       \A t \in Range(ProcessingOrder) : db[t] = pre[t] \/ FullyApplied(t)

\* the column operations of the direct path that succeeded on table t are
\* applied to it and the others are not
AppliedUpToFailure(t) ==
    LET es == EntriesFor(t)
        done(kind, c) == \E k \in 1..Len(es) :
                            es[k].stmt = kind /\ es[k].cols = <<c>> /\ es[k].ok
    IN  /\ db[t].exists
        /\ Len(db[t].rows) = Len(pre[t].rows)
        /\ \A c \in ColSet :
              /\ HasCol(db[t], c) <=>
                    \/ HasCol(pre[t], c) /\ ~done("DROP COLUMN", c)
                    \/ done("ADD COLUMN", c)
              /\ HasCol(db[t], c) =>
                    /\ ColOf(db[t], c).decl =
                          IF done("ADD COLUMN", c) \/ done("ALTER COLUMN", c)
                          THEN ColOf(diff.model[t], c).decl
                          ELSE ColOf(pre[t], c).decl
                    /\ \A r \in 1..Len(db[t].rows) :
                          db[t].rows[r][c] =
                             IF done("ADD COLUMN", c) THEN NULL ELSE pre[t].rows[r][c]

\* C5 (amended): when applyModel returns or raises, a table dropped,
\* created or rebuilt has its change set fully applied or not applied at
\* all; a table on the direct path has exactly the column operations that
\* succeeded before the failure applied, the others not.
C5_AllOrNothingOnRebuildOnly ==
    Terminated =>
       \A t \in Range(ProcessingOrder) :
          IF path[t] = "direct"
          THEN AppliedUpToFailure(t)
          ELSE db[t] = pre[t] \/ FullyApplied(t)

\* the direct path failed on a table after a column operation succeeded and
\* left the table between its old and its new definition
C5_Witness ==
    \E t \in TableSet :
       /\ pc = "raised" /\ path[t] = "direct" /\ exc.table = t
       /\ \E e \in Range(EntriesFor(t)) : e.stmt = "DROP COLUMN" /\ e.ok
       /\ db[t] # pre[t]
       /\ ~SameDefinition(db[t], diff.model[t])

\* C6: applyModel is not atomic across tables: when it fails at the N-th
\* table of the processing order, what it did to the tables before stays
\* applied, the failure propagates, and no later table is touched.
C6_NotAtomicAcrossTables ==
    /\ \A t \in Range(ProcessingOrder) : Finished(t) => FullyApplied(t)
    /\ pc = "raised" =>
          /\ exc # NoStmt
          /\ ~exc.ok
          /\ exc.table \in Range(ProcessingOrder)
          /\ \A k \in 1..Len(ProcessingOrder) :
                k > IndexOf(ProcessingOrder, exc.table) =>
                   LET u == ProcessingOrder[k]
                   IN  /\ db[u] = pre[u]
                       /\ EntriesFor(u) = <<>>
                       /\ path[u] = "none"

\* a rebuild failed after the rebuild of an earlier table was committed
C6_Witness ==
    \E t, u \in TableSet :
       /\ pc = "raised"
       /\ path[t] = "rebuild" /\ Finished(t) /\ pre[t].rows # <<>>
       /\ path[u] = "rebuild" /\ exc.table = u /\ exc.stmt = "CREATE TABLE"

\* C7: after applyModel returns, no table that was missing in the model
\* exists, every other table of the model exists with exactly the model's
\* columns and declarations, and a fresh diff of the model against the
\* database reports nothing.
C7_SchemaMatchesModel ==
    pc = "returned" =>
       /\ \A t \in TableSet : SameDefinition(db[t], diff.model[t])
       /\ LET fresh == computeDiff(diff.model, db, diff.sqlite)
          IN  /\ fresh.tablesMissingInModel = <<>>
              /\ fresh.tablesMissingInDatabase = <<>>
              /\ fresh.tablesWithDiff = <<>>

\* applyModel returned after dropping a table and applying, on the direct
\* path, a change set with a column of each kind
C7_Witness ==
    /\ pc = "returned"
    /\ diff.tablesMissingInModel # <<>>
    /\ \E t \in TableSet :
          /\ path[t] = "direct"
          /\ diff.colDiffs[t].missingInDatabase # <<>>
          /\ diff.colDiffs[t].missingInModel # <<>>
          /\ diff.colDiffs[t].diffDecl # <<>>

(***************************************************************************)
(* Properties of toUpgradeDowngradePython.                                 *)
(***************************************************************************)
HasAlteredDeclaration ==
    \E t \in Range(diff.tablesWithDiff) : diff.colDiffs[t].diffDecl # <<>>

\* the line that fails unconditionally, naming the table and both columns
FailureLine(t, modelCol, databaseCol) ==
    <<DefaultIndent, "assert False, \"Can't alter columns: ",
      t, ":", modelCol, "=>", databaseCol, "\"">>

\* C8: for a diff with an altered declaration, the upgrade text and the
\* downgrade text returned each contain, for every altered-declaration
\* pair, a line that fails unconditionally and names the table and the two
\* columns.
C8_AlteredDeclarationsFail ==
    (gen.status # "none" /\ HasAlteredDeclaration) =>
       /\ gen.status = "returned"
       /\ \A t \in Range(diff.tablesWithDiff) :
             \A c \in Range(diff.colDiffs[t].diffDecl) :
                /\ FailureLine(t, c, c) \in Range(gen.upgrade)
                /\ FailureLine(t, c, c) \in Range(gen.downgrade)

\* the operations the upgrade text is to list, top to bottom
ExpectedUpgrade ==
    [k \in 1..Len(diff.tablesMissingInModel) |->
        <<DefaultIndent, diff.tablesMissingInModel[k], ".drop()">>]
    \o [k \in 1..Len(diff.tablesMissingInDatabase) |->
        <<DefaultIndent, diff.tablesMissingInDatabase[k], ".create()">>]
    \o Flatten([k \in 1..Len(diff.tablesWithDiff) |->
          LET t == diff.tablesWithDiff[k]
              cd == diff.colDiffs[t]
          IN  [m \in 1..Len(cd.missingInDatabase) |->
                  <<DefaultIndent, t, ".columns['", cd.missingInDatabase[m], "'].create()">>]
              \o [m \in 1..Len(cd.missingInModel) |->
                  <<DefaultIndent, t, ".columns['", cd.missingInModel[m], "'].drop()">>]
              \o [m \in 1..Len(cd.diffDecl) |->
                  FailureLine(t, cd.diffDecl[m], cd.diffDecl[m])]])

\* C9: the upgrade text returned lists, after the binding line, one drop
\* per table missing in the model, then one create per table missing in
\* the database, then per table-with-diff its column creates, its column
\* drops and its altered-declaration failures, and nothing else.
C9_UpgradeOrder ==
    gen.status # "none" =>
       /\ gen.status = "returned"
       /\ Tail(gen.upgrade) = ExpectedUpgrade

\* for a diff without altered declarations the upgrade text is returned and
\* lists exactly the expected operations in the expected order
UpgradeOrderWithoutAlterations ==
    (gen.status # "none" /\ ~HasAlteredDeclaration) =>
       /\ gen.status = "returned"
       /\ Tail(gen.upgrade) = ExpectedUpgrade

\* the operation that undoes the operation of a line
Inverse(line) ==
    LET last == line[Len(line)]
        undone == CASE last = ".drop()" -> ".create()"
                    [] last = ".create()" -> ".drop()"
                    [] last = "'].drop()" -> "'].create()"
                    [] last = "'].create()" -> "'].drop()"
                    [] OTHER -> last
    IN  [line EXCEPT ![Len(line)] = undone]

IsOpener(line) ==
    \/ line[1] = "class "
    \/ Len(line) >= 2 /\ line[2] = " = Table('"
OpenerTable(line) == IF line[1] = "class " THEN line[2] ELSE line[1]
IsColumnLine(line) == line[1] = "  "
ColumnLineName(line) == IF line[2] = "Column('" THEN line[3] ELSE line[2]

\* the table definitions of a text, in order, each with the columns its
\* lines list, in order
RECURSIVE TableDefinitions(_, _)
TableDefinitions(lines, acc) ==
    IF lines = <<>> THEN acc
    ELSE LET l == Head(lines)
         IN  IF IsOpener(l)
             THEN TableDefinitions(Tail(lines),
                                   Append(acc, [table |-> OpenerTable(l), cols |-> <<>>]))
             ELSE IF IsColumnLine(l) /\ acc # <<>>
             THEN TableDefinitions(Tail(lines),
                     [acc EXCEPT ![Len(acc)].cols = Append(@, ColumnLineName(l))])
             ELSE TableDefinitions(Tail(lines), acc)

\* one definition per table of the database that the model lacks, with the
\* columns of the reflected table
DefinitionsMissingInModel ==
    [k \in 1..Len(diff.tablesMissingInModel) |->
        [table |-> diff.tablesMissingInModel[k],
         cols |-> ColNamesOf(diff.reflected_model[diff.tablesMissingInModel[k]])]]

DefinitionsMissingInDatabase ==
    [k \in 1..Len(diff.tablesMissingInDatabase) |->
        [table |-> diff.tablesMissingInDatabase[k],
         cols |-> ColNamesOf(diff.model[diff.tablesMissingInDatabase[k]])]]

\* C11: the declarations text returned by toUpgradeDowngradePython holds
\* exactly one table definition per table missing in the model and per
\* table missing in the database, the former first, each list in order,
\* each definition listing every column of the table in the table's order.
C11_DeclarationsCoverMissingTables ==
    gen.status = "returned" =>
       TableDefinitions(gen.decls, <<>>) =
          DefinitionsMissingInModel \o DefinitionsMissingInDatabase

\* declarations were returned for a table of each list, one of them with
\* several columns
C11_Witness ==
    /\ gen.status = "returned"
    /\ diff.tablesMissingInModel # <<>>
    /\ diff.tablesMissingInDatabase # <<>>
    /\ Len(diff.model[diff.tablesMissingInDatabase[1]].cols) = 3
    /\ Len(TableDefinitions(gen.decls, <<>>)) = 2

\* C12: in the upgrade text and in the downgrade text the binding line is
\* the first line, before every operation, for every diff the texts are
\* returned for, the empty diff included.
C12_BindingLineFirst ==
    gen.status = "returned" =>
       \A text \in {gen.upgrade, gen.downgrade} :
          /\ Len(text) >= 1
          /\ text[1] = <<"    meta.bind = migrate_engine">>
          /\ \A k \in 2..Len(text) :
                /\ text[k][1] = DefaultIndent
                /\ text[k] # text[1]

\* texts were returned for the empty diff
C12_Witness ==
    /\ gen.status = "returned"
    /\ diff.tablesMissingInModel = <<>>
    /\ diff.tablesMissingInDatabase = <<>>
    /\ diff.tablesWithDiff = <<>>
    /\ Len(gen.upgrade) = 1

\* C13: toPython emits the preamble (the declarative one iff the
\* declarative style is selected), then exactly one table declaration per
\* table missing in the model, in list order, and none for a table missing
\* in the database or a table-with-diff.
C13_ToPythonDeclaresDatabaseOnlyTables ==
    python.status = "returned" =>
       /\ Len(python.text) >= 2
       /\ python.text[1] =
             IF declarative
             THEN <<"\n## File autogenerated by genmodel.py\n\nfrom sqlalchemy import *\nfrom sqlalchemy.ext import declarative\n\nBase = declarative.declarative_base()\n">>
             ELSE <<"\n## File autogenerated by genmodel.py\n\nfrom sqlalchemy import *\nmeta = MetaData()\n">>
       /\ TableDefinitions(Tail(python.text), <<>>) = DefinitionsMissingInModel
       /\ \A k \in 2..Len(python.text) :
             IsOpener(python.text[k]) =>
                OpenerTable(python.text[k]) \notin
                   Range(diff.tablesMissingInDatabase) \cup Range(diff.tablesWithDiff)

\* toPython returned for a diff with a table to declare and a table of the
\* model that the database lacks
C13_Witness ==
    /\ python.status = "returned"
    /\ declarative
    /\ diff.tablesMissingInModel # <<>>
    /\ diff.tablesMissingInDatabase # <<>>

(***************************************************************************)
(* Properties of column_repr.                                              *)
(***************************************************************************)
KeywordOrder == <<"key", "primary_key", "nullable", "onupdate", "default">>

\* the keyword arguments of a rendered column, read back from its line
RenderedKeywords(line) ==
    SelectSeq(line, LAMBDA f : f \in Range(KeywordOrder))

\* whether the claim selects keyword k for column col
Selected(col, k) ==
    CASE k = "key" -> col.key # col.name
      [] k = "primary_key" -> col.primary_key = "True"
      [] k = "nullable" -> ~col.nullable
      [] k = "onupdate" -> col.onupdate # "None"
      [] k = "default" -> col.default # "None" /\ col.primary_key # "True"

\* C14: the keyword arguments column_repr renders are exactly the
\* subsequence of [key, primary_key, nullable, onupdate, default] selected
\* by: key iff key differs from name, primary_key iff primary key, nullable
\* iff not nullable, onupdate iff set, default iff set and not a primary key.
C14_KeywordArguments ==
    rendered.status = "returned" =>
       RenderedKeywords(rendered.line) =
          SelectSeq(KeywordOrder, LAMBDA k : Selected(rendered.col, k))

\* a primary key with a default and every other attribute set was rendered
C14_Witness ==
    /\ rendered.status = "returned"
    /\ rendered.col.primary_key = "True"
    /\ rendered.col.default # "None"
    /\ rendered.col.key # rendered.col.name
    /\ ~rendered.col.nullable
    /\ rendered.col.onupdate # "None"
    /\ RenderedKeywords(rendered.line) = <<"key", "primary_key", "nullable", "onupdate">>

(***************************************************************************)
(* Properties of the diff report.                                          *)
(***************************************************************************)
\* the classes of the diff report that hold table t; a table is unchanged
\* when both sides have it with the same definition
ClassesOf(t) ==
    {c \in {"missing-in-model", "missing-in-database", "with-diff", "unchanged"} :
        \/ c = "missing-in-model" /\ t \in Range(diff.tablesMissingInModel)
        \/ c = "missing-in-database" /\ t \in Range(diff.tablesMissingInDatabase)
        \/ c = "with-diff" /\ t \in Range(diff.tablesWithDiff)
        \/ /\ c = "unchanged"
           /\ diff.model[t].exists
           /\ SameDefinition(diff.model[t], diff.reflected_model[t])}

NoDuplicates(seq) == \A m, n \in 1..Len(seq) : seq[m] = seq[n] => m = n

\* C15: every table name present in the model or in the database is in
\* exactly one of the classes missing-in-model, missing-in-database,
\* with-diff and unchanged; no table name is in two of the lists that
\* toPython, toUpgradeDowngradePython and applyModel iterate, or twice in one.
C15_TablesPartitioned ==
    /\ \A t \in TableSet :
          IF diff.model[t].exists \/ diff.reflected_model[t].exists
          THEN Cardinality(ClassesOf(t)) = 1
          ELSE ClassesOf(t) = {}
    /\ NoDuplicates(diff.tablesMissingInModel \o diff.tablesMissingInDatabase
                    \o diff.tablesWithDiff)

\* a report with an unchanged table next to a table-with-diff, used by the
\* generator
C15_Witness ==
    /\ gen.status = "returned"
    /\ \E t, u \in TableSet :
          /\ ClassesOf(t) = {"unchanged"}
          /\ ClassesOf(u) = {"with-diff"}

(***************************************************************************)
(* Properties of the rebuild.                                              *)
(***************************************************************************)
\* the rebuild of table t was committed
Rebuilt(t) ==
    /\ path[t] = "rebuild"
    /\ \E k \in 1..Len(log) : log[k] = Stmt("COMMIT", t, <<>>, TRUE)

\* the model columns that the table had before the call, in model order
CommonColumns(t) ==
    SelectSeq(ColNamesOf(diff.model[t]),
              LAMBDA c : c \in Range(ColNamesOf(pre[t])))

\* C16: after a successful rebuild the table has the model definition and
\* as many rows as before; each row keeps its values in the columns common
\* by name to the old and the new definition; nothing is carried over for
\* the columns of the old definition only; the copy statement names exactly
\* the model columns that the database table has too, in model order.
C16_RebuildKeepsCommonData ==
    \A t \in TableSet :
       Rebuilt(t) =>
          /\ db[t].exists
          /\ db[t].cols = diff.model[t].cols
          /\ temp[t] = NoTable
          /\ Len(db[t].rows) = Len(pre[t].rows)
          /\ \A r \in 1..Len(db[t].rows) :
                /\ DOMAIN db[t].rows[r] = Range(ColNamesOf(diff.model[t]))
                /\ \A c \in DOMAIN db[t].rows[r] :
                      db[t].rows[r][c] =
                         IF HasCol(pre[t], c) THEN pre[t].rows[r][c] ELSE NULL
          /\ \A k \in 1..Len(log) :
                (log[k].stmt = "INSERT SELECT" /\ log[k].table = t) =>
                   log[k].cols = CommonColumns(t)

\* a table with rows was rebuilt: it lost a column and kept two
C16_Witness ==
    \E t \in TableSet :
       /\ Rebuilt(t)
       /\ Len(pre[t].rows) >= 1
       /\ diff.colDiffs[t].missingInModel # <<>>
       /\ Len(CommonColumns(t)) = 2

\* the statements that end a transaction
Outcomes(es) ==
    SelectSeq(es, LAMBDA e : (e.stmt = "COMMIT" /\ e.ok) \/ e.stmt = "ROLLBACK")

Begun(es) == SelectSeq(es, LAMBDA e : e.stmt = "BEGIN" /\ e.ok)

InTryBlock == pc \in Range(RebuildOrder)

\* C17: the transaction begun for a rebuild ends with exactly one outcome
\* before applyModel moves to the next table, returns or raises: a commit,
\* only after all five rebuild statements succeeded, or a rollback; no
\* transaction is left open; the direct path and the drop/create phase
\* never open a transaction.
C17_OneOutcomePerTransaction ==
    /\ trans = "open" <=> InTryBlock
    /\ \A t \in TableSet :
          LET es == EntriesFor(t)
              current == InTryBlock /\ diff.tablesWithDiff[i] = t
          IN  /\ Len(Begun(es)) <= 1
              /\ Len(Outcomes(es)) = IF current THEN 0 ELSE Len(Begun(es))
              /\ path[t] # "rebuild" =>
                    \A k \in 1..Len(es) :
                       es[k].stmt \notin {"BEGIN", "COMMIT", "ROLLBACK"}
              /\ \A k \in 1..Len(es) :
                    (es[k].stmt = "COMMIT" /\ es[k].ok) =>
                       /\ k = Len(es)
                       /\ k = 7
                       /\ es[1].stmt = "BEGIN"
                       /\ {es[m].stmt : m \in 2..6} =
                             {"CREATE TEMPORARY TABLE", "DROP TABLE", "CREATE TABLE",
                              "INSERT SELECT", "DROP TEMP TABLE"}
                       /\ \A m \in 1..6 : es[m].ok
              /\ \A k \in 1..Len(es) :
                    es[k].stmt = "ROLLBACK" => k = Len(es)

\* applyModel raised after one rebuild was committed and the next one was
\* rolled back, and a table was created outside any transaction
C17_Witness ==
    /\ pc = "raised"
    /\ trans = "rolledback"
    /\ \E t, u \in TableSet :
          /\ Rebuilt(t)
          /\ path[u] = "rebuild"
          /\ Len(Outcomes(EntriesFor(u))) = 1
          /\ Outcomes(EntriesFor(u))[1].stmt = "ROLLBACK"

\* applyModel returned after dropping a table and applying a change set on
\* the direct path, the cases that open no transaction
DirectPathReached ==
    /\ pc = "returned"
    /\ \E t, u \in TableSet :
          /\ path[t] = "direct"
          /\ EntriesFor(t) # <<>>
          /\ u \in Range(diff.tablesMissingInModel)
          /\ EntriesFor(u) # <<>>

(***************************************************************************)
(* Self-containment of the generated text.                                 *)
(***************************************************************************)
\* the tables the operations of a text refer to
ReferencedTables(text) == {text[k][2] : k \in 2..Len(text)}

DeclaredTables(decls) ==
    LET defs == TableDefinitions(decls, <<>>)
    IN  {defs[k].table : k \in 1..Len(defs)}

\* C18: every table that an operation of the returned upgrade or downgrade
\* text refers to, the tables-with-diff included, has a definition in the
\* returned declarations text.
C18_SelfContained ==
    gen.status = "returned" =>
       ReferencedTables(gen.upgrade) \cup ReferencedTables(gen.downgrade)
          \subseteq DeclaredTables(gen.decls)

====
